---- MODULE Spec2Model ----
(***************************************************************************)
(* Model of wrsjet's trajectory reconstruction and rendering pipeline      *)
(* (src/map.py) and of the detection cycle that fills the store            *)
(* (src/main.py).                                                          *)
(*                                                                         *)
(* Units and encodings                                                     *)
(*   - a CSV timestamp string "YYYY-MM-DDTHH:MM:SS" is the pair            *)
(*     <<day, second of day>>; the parsed datetime is the number of        *)
(*     seconds since day 0; its date is the day number;                    *)
(*   - an aircraft hex identifier is a number (it is one, in base 16) and  *)
(*     is present in every record;                                         *)
(*   - a value that may be missing (pandas NaN, Python None, JavaScript    *)
(*     null) is NULL when missing and Some(v) otherwise;                   *)
(*   - the descriptive columns that are copied verbatim into a point       *)
(*     (callsign, regis, type) are left out;                               *)
(*   - a trajectory point carries idx, the DataFrame index of the row it   *)
(*     was built from (the loop variable idx of iterrows), so that a point *)
(*     can be traced back to its record.                                   *)
(***************************************************************************)
EXTENDS Integers, Sequences, FiniteSets, TLC

VARIABLES
    store_exists,         \* does records.csv exist?
    store,                \* the rows of records.csv, in file order
    pc,                   \* position of the operation under way
    selected_date,        \* argument of the last create_aircraft_trajectories call
    trajectories,         \* its return value
    available_dates,      \* create_map_with_filter: available_dates
    all_trajectories,     \* create_map_with_filter: all_trajectories
    trajectories_by_date, \* create_map_with_filter: trajectories_by_date
    altitude,             \* colour mapper: the altitude given, in half feet
    altitude2,            \* colour mapper: a second, higher altitude
    min_alt,              \* colour mapper: parameter min_alt, in feet
    max_alt,              \* colour mapper: parameter max_alt, in feet
    py_color,             \* get_altitude_color(altitude, min_alt, max_alt)
    py_color2,            \* get_altitude_color(altitude2, min_alt, max_alt)
    js_color,             \* getAltitudeColor(altitude)
    currentLayers,        \* page: the layers updateMap has put on the map
    count,                \* page: the text of the element 'count'
    mapLayers,            \* page: the trajectory layers the Leaflet map holds
    select_value,         \* page: the value of the control 'date-select'
    applied,              \* page: <<d>> when the last updateMap call was updateMap(d)
    listeners,            \* page: how many change listeners the control has
    fired,                \* page: which of the two initialisation callbacks have run
    pass,                 \* render passes: the state of each call of main
    artifact,             \* the file aircraft_trajectories_map_with_filter.html
    data,                 \* detection: the list "ac" of the API's answer
    excitation,           \* detection: what check_aircraft returned
    error_log             \* detection: the messages logged by logging.error

builderVars == <<store_exists, store, selected_date, trajectories, available_dates,
                 all_trajectories, trajectories_by_date>>

colorVars == <<altitude, altitude2, min_alt, max_alt, py_color, py_color2, js_color>>

pageVars == <<currentLayers, count, mapLayers, select_value, applied, listeners, fired>>

renderVars == <<pass, artifact>>

detectVars == <<data, excitation, error_log>>

vars == <<pc, builderVars, colorVars, pageVars, renderVars, detectVars>>

NULL == <<>>
Some(v) == <<v>>
Val(x) == x[1]

----------------------------------------------------------------------------
(* Bounds and input samples *)

MaxRecords == 3
MaxAircraft == 2

DaySeconds == 86400

\* 30 minutes, in seconds: timedelta(minutes=30)
GapSeconds == 1800

\* the default ceiling of the colour gradient, in feet
Ceiling == 6000

\* how far outside the gradient's bounds the altitudes go, in half feet
MaxOutside == 4

\* how far above an altitude the altitudes it is compared with go, in half feet
MaxStep == 3

Hexes == {1, 2}

\* 23:30:00 on day 0, 00:00:00 on day 1 (exactly 30 minutes later, across
\* midnight) and 00:30:01 on day 1 (30 minutes and one second later)
Timestamps == {<<0, 84600>>, <<1, 0>>, <<1, 1801>>}

\* a position is (lat, lon); either coordinate may be missing
Positions == {<<Some(48), Some(2)>>, <<NULL, Some(2)>>, <<Some(48), NULL>>}

GeoRecords ==
    {[timestamp |-> t, hex |-> h, lat |-> p[1], lon |-> p[2], alt |-> Some(3000)] :
        t \in Timestamps, h \in Hexes, p \in Positions}

RECURSIVE SeqsUpTo(_, _)
SeqsUpTo(S, n) ==
    IF n = 0 THEN {<<>>}
    ELSE LET shorter == SeqsUpTo(S, n - 1)
         IN  shorter \cup {Append(s, x) : s \in {q \in shorter : Len(q) = n - 1}, x \in S}

\* the builder's variables before any call
BuilderIdle ==
    /\ selected_date = NULL
    /\ trajectories = <<>>
    /\ available_dates = <<>>
    /\ all_trajectories = <<>>
    /\ trajectories_by_date = <<>>

\* the colour mapper's variables when it is not under study
ColorIdle ==
    /\ altitude = NULL
    /\ altitude2 = NULL
    /\ min_alt = 0
    /\ max_alt = Ceiling
    /\ py_color = <<>>
    /\ py_color2 = <<>>
    /\ js_color = <<>>

\* the value 'all' of the date control; the value of a date d is Some(d)
AllDates == <<>>

\* the page before its script has run: the control shows its first option,
\* 'All dates' (line 241; no option carries the attribute selected)
PageIdle ==
    /\ currentLayers = <<>>
    /\ count = 0
    /\ mapLayers = <<>>
    /\ select_value = AllDates
    /\ applied = <<>>
    /\ listeners = 0
    /\ fired = {}

\* no detection cycle has run
DetectIdle ==
    /\ data = <<>>
    /\ excitation = FALSE
    /\ error_log = <<>>

Passes == {1, 2}

\* main has not been called
PassIdle ==
    [pc |-> "idle", verbose |-> TRUE, outcome |-> "none", messages |-> <<>>, written |-> 0]

\* the render passes when they are not under study: none runs, no artifact
RenderIdle ==
    /\ pass = [p \in Passes |-> PassIdle]
    /\ artifact = [exists |-> FALSE, content |-> <<>>]

----------------------------------------------------------------------------
(* parse_timestamp and the derived columns *)

parse_timestamp(timestamp_str) == timestamp_str[1] * DaySeconds + timestamp_str[2]

\* the strings datetime.fromisoformat accepts (line 23); on any other string
\* parse_timestamp raises ValueError.  A malformed timestamp is written <<>>.
IsoFormat(timestamp_str) == Len(timestamp_str) = 2

Malformed(csv) == \E i \in 1..Len(csv) : ~IsoFormat(csv[i].timestamp)

DateOf(datetime) == datetime \div DaySeconds

\* the DataFrame after lines 78-82: one row per CSV line, in file order
ReadFrame(csv) ==
    [i \in 1..Len(csv) |->
        [idx |-> i,
         timestamp |-> csv[i].timestamp,
         hex |-> csv[i].hex,
         lat |-> csv[i].lat,
         lon |-> csv[i].lon,
         alt |-> csv[i].alt,
         datetime |-> parse_timestamp(csv[i].timestamp),
         date |-> DateOf(parse_timestamp(csv[i].timestamp))]]

----------------------------------------------------------------------------
(* df.sort_values(['aircraft_id', 'datetime']): a stable sort *)

RowBefore(a, b) ==
    \/ a.hex < b.hex
    \/ a.hex = b.hex /\ a.datetime < b.datetime

RECURSIVE InsertRow(_, _)
InsertRow(sorted, row) ==
    IF sorted = <<>> THEN <<row>>
    ELSE IF RowBefore(row, sorted[Len(sorted)])
         THEN Append(InsertRow(SubSeq(sorted, 1, Len(sorted) - 1), row), sorted[Len(sorted)])
         ELSE Append(sorted, row)

RECURSIVE SortRows(_)
SortRows(rows) ==
    IF rows = <<>> THEN <<>>
    ELSE InsertRow(SortRows(SubSeq(rows, 1, Len(rows) - 1)), rows[Len(rows)])

RowBeforeByHex(a, b) == a.hex < b.hex

RECURSIVE InsertRowByHex(_, _)
InsertRowByHex(sorted, row) ==
    IF sorted = <<>> THEN <<row>>
    ELSE IF RowBeforeByHex(row, sorted[Len(sorted)])
         THEN Append(InsertRowByHex(SubSeq(sorted, 1, Len(sorted) - 1), row),
                     sorted[Len(sorted)])
         ELSE Append(sorted, row)

RECURSIVE sort_values_hex_only(_)
sort_values_hex_only(df) ==
    IF df = <<>> THEN <<>>
    ELSE InsertRowByHex(sort_values_hex_only(SubSeq(df, 1, Len(df) - 1)), df[Len(df)])

sort_values(df) == SortRows(df)

\* df['aircraft_id'].unique(): the distinct values in order of appearance
RECURSIVE UniqueHex(_)
UniqueHex(df) ==
    IF df = <<>> THEN <<>>
    ELSE LET before == UniqueHex(SubSeq(df, 1, Len(df) - 1))
             h == df[Len(df)].hex
         IN  IF \E k \in 1..Len(before) : before[k] = h THEN before ELSE Append(before, h)

----------------------------------------------------------------------------
(* create_aircraft_trajectories *)

Point(row) ==
    [idx |-> row.idx,
     lat |-> row.lat,
     lon |-> row.lon,
     altitude |-> IF row.alt # NULL THEN Val(row.alt) ELSE 0,
     timestamp |-> row.timestamp,
     datetime |-> row.datetime]

GapSplitsAtThreshold(row, current_trajectory) ==
    /\ current_trajectory # <<>>
    /\ row.datetime - current_trajectory[Len(current_trajectory)].datetime >= GapSeconds

\* does the row open a new trajectory (line 108)?
GapSplits(row, current_trajectory) ==
    /\ current_trajectory # <<>>
    /\ row.datetime - current_trajectory[Len(current_trajectory)].datetime > GapSeconds

\* the loop of lines 103-124 over one aircraft's rows, from row i on; the
\* result is <<trajectories closed so far, current_trajectory>>
RECURSIVE WalkRows(_, _, _, _)
WalkRows(aircraft_data, i, closed, current_trajectory) ==
    IF i > Len(aircraft_data) THEN <<closed, current_trajectory>>
    ELSE LET row == aircraft_data[i]
         IN  IF GapSplits(row, current_trajectory)
             THEN WalkRows(aircraft_data, i + 1,
                           Append(closed, current_trajectory), <<Point(row)>>)
             ELSE WalkRows(aircraft_data, i + 1,
                           closed, Append(current_trajectory, Point(row)))

AircraftTrajectories(aircraft_data) ==
    LET walked == WalkRows(aircraft_data, 1, <<>>, <<>>)
    IN  IF Len(walked[2]) >= 1 THEN Append(walked[1], walked[2]) ELSE walked[1]

RECURSIVE ForEachAircraft(_, _, _)
ForEachAircraft(df, ids, k) ==
    IF k > Len(ids) THEN <<>>
    ELSE AircraftTrajectories(SelectSeq(df, LAMBDA r : r.hex = ids[k]))
            \o ForEachAircraft(df, ids, k + 1)

FilterDateKeepsAll(df, date) == df

\* df[df['date'] == selected_date]
FilterDate(df, date) == SelectSeq(df, LAMBDA r : r.date = date)

create_aircraft_trajectories(csv, date) ==
    LET df == IF date # NULL THEN FilterDate(ReadFrame(csv), Val(date)) ELSE ReadFrame(csv)
        sorted == sort_values(df)
    IN  IF date # NULL /\ df = <<>> THEN <<>>
        ELSE ForEachAircraft(sorted, UniqueHex(sorted), 1)

----------------------------------------------------------------------------
(* get_available_dates and the data part of create_map_with_filter *)

\* sorted(df['date'].unique(), reverse=True)
RECURSIVE SortedDesc(_)
SortedDesc(S) ==
    IF S = {} THEN <<>>
    ELSE LET m == CHOOSE x \in S : \A y \in S : y <= x
         IN  <<m>> \o SortedDesc(S \ {m})

\* [] when reading raises: no file, or no row (.dt on an empty column)
get_available_dates(exists, csv) ==
    IF ~exists \/ csv = <<>> \/ Malformed(csv) THEN <<>>
    ELSE SortedDesc({ReadFrame(csv)[i].date : i \in 1..Len(csv)})

\* lines 184-188
TrajectoriesByDate(csv, dates) ==
    [d \in {dates[k] : k \in 1..Len(dates)} |-> create_aircraft_trajectories(csv, Some(d))]

----------------------------------------------------------------------------
(* The altitude colour mapper: get_altitude_color (Python) and
   getAltitudeColor (JavaScript).

   An altitude is a whole number of half feet (an integer altitude, or the
   average of two of them), so that h half feet against bounds of min_alt and
   max_alt feet gives ratio = (h - 2 min_alt) / (2 (max_alt - min_alt)).
   A colour is the sequence of the characters of its string.

   Both languages compute in IEEE-754 doubles.  ratio is the double nearest
   the exact quotient; 255 * ratio is never below an exact whole product, but
   255 * (1 - ratio) is just below it for the ratios k/255 with k in
   RoundsBelow (1 - 0.8 is 0.19999999999999996, and 255 times it is
   50.99999999999999).  A product is the record [n, d, below]: the exact
   value n/d, and whether the double is just below it. *)

RoundsBelow ==
    {43, 59, 74, 75, 90, 91, 106, 107, 122, 123, 132, 133, 140, 141, 148, 149,
     156, 157, 164, 165, 172, 173, 180, 181, 188, 189, 196, 197, 198, 204, 205,
     206, 212, 213, 214, 220, 221, 222, 228, 229, 230, 236, 237, 238, 244, 245,
     246, 252, 253, 254}

Times255Ratio(num, den) == [n |-> 255 * num, d |-> den, below |-> FALSE]

Times255OneMinusRatio(num, den) ==
    [n |-> 255 * (den - num), d |-> den,
     below |-> (255 * num) % den = 0 /\ ((255 * num) \div den) \in RoundsBelow]

\* the whole number at or below a double, and the one at or above it
FloorOf(x) == IF x.below /\ x.n % x.d = 0 THEN (x.n \div x.d) - 1 ELSE x.n \div x.d

CeilOf(x) == IF x.n % x.d = 0 THEN x.n \div x.d ELSE (x.n \div x.d) + 1

\* Python int(x): towards zero
PyInt(x) == IF x.n >= 0 THEN FloorOf(x) ELSE CeilOf(x)

MathCeil(x) == CeilOf(x)

\* JavaScript Math.floor(x)
MathFloor(x) == FloorOf(x)

HexDigit(v) ==
    <<"0", "1", "2", "3", "4", "5", "6", "7", "8", "9", "a", "b", "c", "d", "e", "f">>[v + 1]

RECURSIVE Base16(_)
Base16(n) == IF n < 16 THEN <<HexDigit(n)>> ELSE Append(Base16(n \div 16), HexDigit(n % 16))

RECURSIVE PadLeft(_, _)
PadLeft(digits, width) ==
    IF Len(digits) >= width THEN digits ELSE PadLeft(<<"0">> \o digits, width)

\* Python f'{n:02x}'
Format02x(n) == PadLeft(Base16(n), 2)

\* JavaScript n.toString(16).padStart(2, '0')
ToString16PadStart(n) == PadLeft(Base16(n), 2)

Gray == <<"#", "8", "0", "8", "0", "8", "0">>
Green == <<"#", "0", "0", "F", "F", "0", "0">>
Red == <<"#", "F", "F", "0", "0", "0", "0">>

\* altitude - min_alt, in half feet
RatioNum(h, lo) == h - 2 * lo

InterpolateSwapped(num, den) ==
    <<PyInt(Times255OneMinusRatio(num, den)), PyInt(Times255Ratio(num, den))>>

\* lines 38-40: <<red, green>>
Interpolate(num, den) ==
    <<PyInt(Times255Ratio(num, den)), PyInt(Times255OneMinusRatio(num, den))>>

get_altitude_color_floor_0(alt, lo, hi) ==
    IF alt = NULL THEN Gray
    ELSE IF Val(alt) <= 0 THEN Green
    ELSE IF Val(alt) >= 2 * hi THEN Red
    ELSE LET rg == Interpolate(Val(alt), 2 * hi)
         IN  <<"#">> \o Format02x(rg[1]) \o Format02x(rg[2]) \o <<"0", "0">>

get_altitude_color(alt, lo, hi) ==
    IF alt = NULL THEN Gray
    ELSE IF Val(alt) <= 2 * lo THEN Green
    ELSE IF Val(alt) >= 2 * hi THEN Red
    ELSE LET rg == Interpolate(RatioNum(Val(alt), lo), 2 * (hi - lo))
         IN  <<"#">> \o Format02x(rg[1]) \o Format02x(rg[2]) \o <<"0", "0">>

getAltitudeColor(alt) ==
    IF alt = NULL THEN Gray
    ELSE IF Val(alt) <= 0 THEN Green
    ELSE IF Val(alt) >= 2 * 6000 THEN Red
    ELSE LET red == MathFloor(Times255Ratio(Val(alt), 2 * 6000))
             green == MathFloor(Times255OneMinusRatio(Val(alt), 2 * 6000))
         IN  <<"#">> \o ToString16PadStart(red) \o ToString16PadStart(green) \o <<"0", "0">>

----------------------------------------------------------------------------
(* The generated page: trajectoryData and the script's updateMap.
   A layer is [kind, color, at]: the Leaflet object made, its colour option
   (the empty sequence when it has none) and the idx of the points it is drawn
   at. *)

\* lines 190-201: the points as written into the page (no datetime)
JsonPoint(p) ==
    [idx |-> p.idx, lat |-> p.lat, lon |-> p.lon, altitude |-> p.altitude,
     timestamp |-> p.timestamp]

JsonTrajectory(traj) == [points |-> [j \in 1..Len(traj) |-> JsonPoint(traj[j])]]

trajectories_json(by_date) ==
    [d \in DOMAIN by_date |->
        [k \in 1..Len(by_date[d]) |-> JsonTrajectory(by_date[d][k])]]

\* point.altitude, a number of feet, as the half feet getAltitudeColor is given
PointAltitude(point) == Some(2 * point.altitude)

\* (startPoint.altitude + endPoint.altitude) / 2, in half feet
AvgAltitude(startPoint, endPoint) == Some(startPoint.altitude + endPoint.altitude)

\* lines 315-331: the polylines of segments i, i + 1, ...
RECURSIVE Segments(_, _)
Segments(points, i) ==
    IF i > Len(points) - 1 THEN <<>>
    ELSE <<[kind |-> "polyline",
            color |-> getAltitudeColor(AvgAltitude(points[i], points[i + 1])),
            at |-> <<points[i].idx, points[i + 1].idx>>]>>
            \o Segments(points, i + 1)

\* the layers addTrajectoryToMap pushes on currentLayers
addTrajectoryToMap(trajectory) ==
    LET points == trajectory.points
    IN  IF Len(points) = 0 THEN <<>>
        ELSE IF Len(points) = 1
        THEN <<[kind |-> "circleMarker",
                color |-> getAltitudeColor(PointAltitude(points[1])),
                at |-> <<points[1].idx>>]>>
        ELSE Segments(points, 1)
                \o <<[kind |-> "marker", color |-> <<>>,
                      at |-> <<points[(Len(points) \div 2) + 1].idx>>],
                     [kind |-> "startMarker", color |-> <<"g", "r", "e", "e", "n">>,
                      at |-> <<points[1].idx>>],
                     [kind |-> "endMarker", color |-> <<"r", "e", "d">>,
                      at |-> <<points[Len(points)].idx>>]>>

\* lines 386-394; dates is the order of the keys of trajectoryData
RECURSIVE ConcatValues(_, _, _)
ConcatValues(trajectoryData, dates, k) ==
    IF k > Len(dates) THEN <<>>
    ELSE trajectoryData[dates[k]] \o ConcatValues(trajectoryData, dates, k + 1)

TrajectoriesToShow(trajectoryData, dates, selectedDate) ==
    IF selectedDate = AllDates THEN ConcatValues(trajectoryData, dates, 1)
    ELSE IF Val(selectedDate) \in DOMAIN trajectoryData
         THEN trajectoryData[Val(selectedDate)]
         ELSE <<>>

RECURSIVE AddAll(_, _)
AddAll(trajectoriesToShow, k) ==
    IF k > Len(trajectoriesToShow) THEN <<>>
    ELSE addTrajectoryToMap(trajectoriesToShow[k]) \o AddAll(trajectoriesToShow, k + 1)

\* map.removeLayer(layer): the map no longer holds the layer
RemoveLayer(layers, layer) ==
    IF \E i \in 1..Len(layers) : layers[i] = layer
    THEN LET i == CHOOSE i \in 1..Len(layers) :
                      /\ layers[i] = layer
                      /\ \A j \in 1..(i - 1) : layers[j] # layer
         IN  SubSeq(layers, 1, i - 1) \o SubSeq(layers, i + 1, Len(layers))
    ELSE layers

RECURSIVE RemoveEach(_, _, _)
RemoveEach(layers, toRemove, k) ==
    IF k > Len(toRemove) THEN layers
    ELSE RemoveEach(RemoveLayer(layers, toRemove[k]), toRemove, k + 1)

\* a clearTrajectories that forgets the layers without taking them off the map
clearTrajectories_keeping_layers(m) == [m EXCEPT !.currentLayers = <<>>]

\* clearTrajectories(); m is the state of the page: the layers of the map, the
\* array currentLayers and the text of 'count'
clearTrajectories(m) ==
    [m EXCEPT !.mapLayers = RemoveEach(m.mapLayers, m.currentLayers, 1),
              !.currentLayers = <<>>]

\* updateMap(selectedDate), with the page's trajectoryData and its key order
updateMap(m, trajectoryData, dates, selectedDate) ==
    LET cleared == clearTrajectories(m)
        trajectoriesToShow == TrajectoriesToShow(trajectoryData, dates, selectedDate)
    IN  [mapLayers |-> cleared.mapLayers \o AddAll(trajectoriesToShow, 1),
         currentLayers |-> cleared.currentLayers \o AddAll(trajectoriesToShow, 1),
         count |-> Len(trajectoriesToShow)]

\* a change event: every registered listener calls updateMap(this.value)
RECURSIVE DispatchChange(_, _, _, _, _)
DispatchChange(m, trajectoryData, dates, value, n) ==
    IF n = 0 THEN m
    ELSE DispatchChange(updateMap(m, trajectoryData, dates, value),
                        trajectoryData, dates, value, n - 1)

----------------------------------------------------------------------------
(* Specifications of the colour mapper: an altitude (and a higher one) is
   drawn, then each implementation is applied to it. *)

\* the altitudes from just below lo feet to just above hi feet, in half feet
HalfFeet(lo, hi) == (2 * lo - MaxOutside)..(2 * hi + MaxOutside)

\* the higher altitudes h is compared with: the next ones, and the ceiling
HigherThan(h) ==
    {h2 \in (h + 1)..(h + MaxStep) : h2 <= 2 * Ceiling + MaxOutside}
        \cup {h2 \in {2 * Ceiling} : h < h2}

InitColor ==
    /\ pc = "color"
    /\ PageIdle
    /\ RenderIdle
    /\ DetectIdle
    /\ store_exists = TRUE
    /\ store = <<>>
    /\ BuilderIdle
    /\ min_alt = 0
    /\ max_alt = Ceiling
    /\ \/ altitude = NULL /\ altitude2 = NULL
       \/ \E h \in HalfFeet(0, Ceiling) :
             /\ altitude = Some(h)
             /\ altitude2 \in {NULL} \cup {Some(h2) : h2 \in HigherThan(h)}
    /\ py_color = <<>>
    /\ py_color2 = <<>>
    /\ js_color = <<>>

\* the bounds get_altitude_color is given: its defaults, a lower ceiling, a
\* raised floor and a floor below zero
BoundsGiven == {<<0, 6000>>, <<0, 3000>>, <<1000, 6000>>, <<-1000, 6000>>}

InitColorBounds ==
    /\ pc = "color"
    /\ PageIdle
    /\ RenderIdle
    /\ DetectIdle
    /\ store_exists = TRUE
    /\ store = <<>>
    /\ BuilderIdle
    /\ \E b \in BoundsGiven :
          /\ min_alt = b[1]
          /\ max_alt = b[2]
          /\ altitude \in {NULL} \cup {Some(h) : h \in HalfFeet(b[1], b[2]) \cup {0}}
    /\ altitude2 = NULL
    /\ py_color = <<>>
    /\ py_color2 = <<>>
    /\ js_color = <<>>

GetAltitudeColorPython ==
    /\ pc = "color"
    /\ py_color = <<>>
    /\ py_color' = get_altitude_color(altitude, min_alt, max_alt)
    /\ py_color2' = get_altitude_color(altitude2, min_alt, max_alt)
    /\ UNCHANGED <<pc, builderVars, altitude, altitude2, min_alt, max_alt, js_color>>
    /\ UNCHANGED <<pageVars, renderVars, detectVars>>

GetAltitudeColorJs ==
    /\ pc = "color"
    /\ js_color = <<>>
    /\ js_color' = getAltitudeColor(altitude)
    /\ UNCHANGED <<pc, builderVars, altitude, altitude2, min_alt, max_alt, py_color,
                   py_color2>>
    /\ UNCHANGED <<pageVars, renderVars, detectVars>>

NextColor == GetAltitudeColorPython \/ GetAltitudeColorJs

SpecColor == InitColor /\ [][NextColor]_vars

NextColorBounds == GetAltitudeColorPython

SpecColorBounds == InitColorBounds /\ [][NextColorBounds]_vars

----------------------------------------------------------------------------
(* Specification of the trajectory builder: the store holds any records, in
   any order; then one of the two operations runs on it. *)

InitBuilder ==
    /\ store_exists = TRUE
    /\ store \in SeqsUpTo(GeoRecords, MaxRecords)
    /\ pc = "ready"
    /\ BuilderIdle
    /\ ColorIdle
    /\ PageIdle
    /\ RenderIdle
    /\ DetectIdle

\* a direct call create_aircraft_trajectories(csv_file_path, selected_date) that
\* returns (on a missing file read_csv raises, on a file without rows the .dt
\* accessor of line 82 does)
CreateAircraftTrajectories(date) ==
    /\ pc = "ready"
    /\ store_exists
    /\ store # <<>>
    /\ selected_date' = date
    /\ trajectories' = create_aircraft_trajectories(store, date)
    /\ pc' = "called"
    /\ UNCHANGED <<store_exists, store, available_dates, all_trajectories,
                   trajectories_by_date>>
    /\ UNCHANGED <<colorVars, pageVars, renderVars, detectVars>>

\* the trajectory data create_map_with_filter builds (lines 135-149, 184-188)
BuildMapData ==
    /\ pc = "ready"
    /\ store_exists
    /\ available_dates' = get_available_dates(store_exists, store)
    /\ IF get_available_dates(store_exists, store) = <<>>
       THEN UNCHANGED <<all_trajectories, trajectories_by_date>>
       ELSE /\ all_trajectories' = create_aircraft_trajectories(store, NULL)
            /\ trajectories_by_date' =
                   IF create_aircraft_trajectories(store, NULL) = <<>>
                   THEN <<>>
                   ELSE TrajectoriesByDate(store, get_available_dates(store_exists, store))
    /\ pc' = "built"
    /\ UNCHANGED <<store_exists, store, selected_date, trajectories>>
    /\ UNCHANGED <<colorVars, pageVars, renderVars, detectVars>>

NextBuilder ==
    \/ \E date \in {NULL} \cup {Some(t[1]) : t \in Timestamps} : CreateAircraftTrajectories(date)
    \/ BuildMapData

SpecBuilder == InitBuilder /\ [][NextBuilder]_vars

----------------------------------------------------------------------------
(* Specification of the path of an altitude from the store to the page: the
   store holds records with and without an altitude; the map data is built
   and the page's updateMap draws a selection. *)

Altitudes == {NULL, Some(0), Some(3000)}

AltRecords ==
    {[timestamp |-> t, hex |-> h, lat |-> Some(48), lon |-> Some(2), alt |-> a] :
        t \in Timestamps, h \in Hexes, a \in Altitudes}

InitAltitude ==
    /\ store_exists = TRUE
    /\ store \in SeqsUpTo(AltRecords, MaxRecords)
    /\ pc = "ready"
    /\ BuilderIdle
    /\ ColorIdle
    /\ PageIdle
    /\ RenderIdle
    /\ DetectIdle

\* updateMap(selectedDate) in the page generated from the map data
PageState ==
    [mapLayers |-> mapLayers, currentLayers |-> currentLayers, count |-> count]

UpdateMap(selectedDate) ==
    /\ pc \in {"built", "shown"}
    /\ all_trajectories # <<>>
    /\ LET m == updateMap(PageState, trajectories_json(trajectories_by_date),
                          available_dates, selectedDate)
       IN  /\ mapLayers' = m.mapLayers
           /\ currentLayers' = m.currentLayers
           /\ count' = m.count
    /\ applied' = <<selectedDate>>
    /\ pc' = "shown"
    /\ UNCHANGED <<select_value, listeners, fired>>
    /\ UNCHANGED <<builderVars, colorVars, renderVars, detectVars>>

Selections == {AllDates} \cup {Some(t[1]) : t \in Timestamps}

NextAltitude ==
    \/ BuildMapData
    \/ \E selectedDate \in Selections : UpdateMap(selectedDate)

SpecAltitude == InitAltitude /\ [][NextAltitude]_vars

----------------------------------------------------------------------------
(* The detection cycle, check_aircraft (src/main.py).  A callsign is the
   sequence of its characters; vspeed, track, dist and the value of azimuth
   are left out of the row. *)

\* config.ini as read at lines 11-32: a sample configuration
config ==
    [min_alt |-> 0,
     max_alt |-> 5000,
     callsign_blacklist |-> {<<"S", "A", "M", "U">>},
     regis_blacklist |-> {"F-ZBQA"},
     desc_blacklist |-> {"H2T"}]

MIN_ALT == config.min_alt
MAX_ALT == config.max_alt
CALLSIGN_BLACKLIST == config.callsign_blacklist
REGIS_BLACKLIST == config.regis_blacklist
DESC_BLACKLIST == config.desc_blacklist

\* the ICAO table fetched at start-up, for the types of the sample
type_data == [t \in {"A320", "EC35"} |-> IF t = "A320" THEN "L2J" ELSE "H2T"]

\* utils_icao.get_type_description
get_type_description(icao_type, type_dict) ==
    IF icao_type # NULL /\ Val(icao_type) \in DOMAIN type_dict
    THEN Some(type_dict[Val(icao_type)])
    ELSE NULL

\* callsign.startswith(prefix)
startswith(callsign, prefix) ==
    /\ Len(prefix) <= Len(callsign)
    /\ SubSeq(callsign, 1, Len(prefix)) = prefix

\* utils_geo.get_azimuth returns None when a coordinate is None, and
\* int(round(None)) raises TypeError (lines 90-92)
AzimuthRaises(ac) == ac.lat = NULL \/ ac.lon = NULL

\* MIN_ALT <= alt <= MAX_ALT raises TypeError when alt is None (line 94)
AltitudeTestRaises(ac) == ac.alt_baro = NULL

\* lines 94-103: the tests that let an aircraft through to save_csv
PassesFilters(ac) ==
    /\ MIN_ALT <= Val(ac.alt_baro) /\ Val(ac.alt_baro) <= MAX_ALT
    /\ ~(/\ ac.flight # NULL
         /\ Val(ac.flight) # <<>>
         /\ \E prefix \in CALLSIGN_BLACKLIST : startswith(Val(ac.flight), prefix))
    /\ ~(ac.r # NULL /\ Val(ac.r) \in REGIS_BLACKLIST)
    /\ ~(/\ get_type_description(ac.t, type_data) # NULL
         /\ Val(get_type_description(ac.t, type_data)) \in DESC_BLACKLIST)

\* lines 105-119
Row(ac) ==
    [callsign |-> ac.flight, regis |-> ac.r, hex |-> ac.hex, type |-> ac.t,
     desc |-> get_type_description(ac.t, type_data), alt |-> ac.alt_baro,
     lat |-> ac.lat, lon |-> ac.lon]

\* lines 74-125: the loop over data.get("ac", []) inside the try; rows are the
\* rows given to save_csv so far.  An exception leaves the loop for the
\* handler of lines 127-129, which logs and returns False.
RECURSIVE ForEachAc(_, _, _, _)
ForEachAc(acs, k, rows, excited) ==
    IF k > Len(acs)
    THEN [rows |-> rows, returned |-> excited, logged |-> <<>>]
    ELSE IF AzimuthRaises(acs[k]) \/ AltitudeTestRaises(acs[k])
    THEN [rows |-> rows, returned |-> FALSE, logged |-> <<"API error: TypeError">>]
    ELSE IF ~PassesFilters(acs[k])
    THEN ForEachAc(acs, k + 1, rows, excited)
    ELSE ForEachAc(acs, k + 1, Append(rows, Row(acs[k])),
                   excited \/ acs[k].t # Some("L1P"))

\* check_aircraft() when the API answers with the list acs
CheckAircraft(acs) ==
    /\ pc = "polling"
    /\ data' = acs
    /\ LET cycle == ForEachAc(acs, 1, <<>>, FALSE)
       IN  /\ store' = store \o cycle.rows
           /\ store_exists' = (store_exists \/ cycle.rows # <<>>)
           /\ excitation' = cycle.returned
           /\ error_log' = error_log \o cycle.logged
    /\ pc' = "checked"
    /\ UNCHANGED <<selected_date, trajectories, available_dates, all_trajectories,
                   trajectories_by_date>>
    /\ UNCHANGED <<colorVars, pageVars, renderVars>>

\* check_aircraft() when requests.get, raise_for_status or json raises
\* (lines 70-72, 127-129)
CheckAircraftApiError ==
    /\ pc = "polling"
    /\ excitation' = FALSE
    /\ error_log' = Append(error_log, "API error: request")
    /\ pc' = "failed"
    /\ UNCHANGED data
    /\ UNCHANGED <<builderVars, colorVars, pageVars, renderVars>>

Callsigns == {NULL, Some(<<"A", "F", "R", "1">>), Some(<<"S", "A", "M", "U", "7">>)}

Aircraft ==
    {[flight |-> f, r |-> Some(r), hex |-> 1, t |-> Some(t), alt_baro |-> a,
      lat |-> pos[1], lon |-> pos[2]] :
        f \in Callsigns, r \in {"F-GSEX", "F-ZBQA"}, t \in {"A320", "EC35"},
        a \in {NULL, Some(1000), Some(9000)},
        pos \in {<<Some(48), Some(2)>>, <<NULL, NULL>>}}

\* one cycle, on a log that does not exist yet
InitDetect ==
    /\ store_exists = FALSE
    /\ store = <<>>
    /\ pc = "polling"
    /\ BuilderIdle
    /\ ColorIdle
    /\ PageIdle
    /\ RenderIdle
    /\ DetectIdle

NextDetect ==
    \/ \E acs \in SeqsUpTo(Aircraft, MaxAircraft) : CheckAircraft(acs)
    \/ CheckAircraftApiError

SpecDetect == InitDetect /\ [][NextDetect]_vars

----------------------------------------------------------------------------
(* The generated page: its two initialisation callbacks and the date control *)

\* line 204: initial_date = str(available_dates[0])
initial_date == Some(available_dates[1])

\* the options of the control (lines 210-213, 241-242)
Options == {AllDates} \cup {Some(available_dates[i]) : i \in 1..Len(available_dates)}

\* lines 405-415 (the DOMContentLoaded handler) and 418-426 (the callback of
\* setTimeout): register a change listener, then updateMap(initial_date)
Initialize(callback) ==
    /\ pc \in {"built", "shown"}
    /\ all_trajectories # <<>>
    /\ callback \notin fired
    /\ fired' = fired \cup {callback}
    /\ listeners' = listeners + 1
    /\ LET m == updateMap(PageState, trajectories_json(trajectories_by_date),
                          available_dates, initial_date)
       IN  /\ mapLayers' = m.mapLayers
           /\ currentLayers' = m.currentLayers
           /\ count' = m.count
    /\ applied' = <<initial_date>>
    /\ pc' = "shown"
    /\ UNCHANGED select_value
    /\ UNCHANGED <<builderVars, colorVars, renderVars, detectVars>>

DOMContentLoaded == Initialize("DOMContentLoaded")

Timeout == Initialize("setTimeout")

\* the user picks another option of the control: the control takes the value,
\* and the change event runs the listeners registered so far
Change(value) ==
    /\ pc \in {"built", "shown"}
    /\ all_trajectories # <<>>
    /\ value \in Options
    /\ value # select_value
    /\ select_value' = value
    /\ LET m == DispatchChange(PageState, trajectories_json(trajectories_by_date),
                               available_dates, value, listeners)
       IN  /\ mapLayers' = m.mapLayers
           /\ currentLayers' = m.currentLayers
           /\ count' = m.count
    /\ applied' = IF listeners = 0 THEN applied ELSE <<value>>
    /\ UNCHANGED <<pc, listeners, fired>>
    /\ UNCHANGED <<builderVars, colorVars, renderVars, detectVars>>

PageRecords ==
    {[timestamp |-> t, hex |-> h, lat |-> Some(48), lon |-> Some(2), alt |-> Some(3000)] :
        t \in Timestamps, h \in Hexes}

InitPage ==
    /\ store_exists = TRUE
    /\ store \in SeqsUpTo(PageRecords, MaxRecords)
    /\ pc = "ready"
    /\ BuilderIdle
    /\ ColorIdle
    /\ PageIdle
    /\ RenderIdle
    /\ DetectIdle

NextPage ==
    \/ BuildMapData
    \/ DOMContentLoaded
    \/ Timeout
    \/ \E value \in Selections : Change(value)

SpecPage == InitPage /\ [][NextPage]_vars

----------------------------------------------------------------------------
(* The render pass: main(verbose), create_map_with_filter and the saving of the
   map.  Two passes may run at once.

   map_object.save(output_file) is folium's (branca's) Element.save: it opens
   the named file for writing, which empties it, renders the document, writes
   it to the open file and closes it.  The document is written in MaxChunks
   pieces; a piece of the document of pass p is [by |-> p, part |-> k], and a
   gap left in the file by a write past its end is [by |-> 0, part |-> 0]. *)

MaxChunks == 2

Document(p) == [k \in 1..MaxChunks |-> [by |-> p, part |-> k]]

Hole == [by |-> 0, part |-> 0]

\* the file after a write of piece at position k (counted from 1)
RECURSIVE WriteAt(_, _, _)
WriteAt(content, k, piece) ==
    IF k <= Len(content) THEN [content EXCEPT ![k] = piece]
    ELSE IF k = Len(content) + 1 THEN Append(content, piece)
    ELSE WriteAt(Append(content, Hole), k, piece)

\* what get_available_dates prints when reading raises (line 56)
ReadDatesMessage(exists, csv) ==
    IF ~exists THEN <<"Error reading dates from CSV: No such file or directory">>
    ELSE IF csv = <<>>
    THEN <<"Error reading dates from CSV: Can only use .dt accessor with datetimelike values">>
    ELSE IF Malformed(csv)
    THEN <<"Error reading dates from CSV: Invalid isoformat string">>
    ELSE <<>>

\* a renderer that would drop the records it cannot parse and build the map from
\* the others, saying nothing
create_map_with_filter_dropping_malformed(exists, csv) ==
    LET IsParsed(record) == IsoFormat(record.timestamp)
    IN  [map |-> exists /\ SelectSeq(csv, IsParsed) # <<>>,
         printed |-> IF exists /\ SelectSeq(csv, IsParsed) # <<>>
                     THEN <<>> ELSE <<"No data available">>]

\* create_map_with_filter(csv_file_path), up to the making of the map: what it
\* prints, and whether it returns a map or None
create_map_with_filter(exists, csv) ==
    IF get_available_dates(exists, csv) = <<>>
    THEN [map |-> FALSE, printed |-> ReadDatesMessage(exists, csv) \o <<"No data available">>]
    ELSE IF create_aircraft_trajectories(csv, NULL) = <<>>
    THEN [map |-> FALSE, printed |-> <<"No trajectories found">>]
    ELSE [map |-> TRUE, printed |-> <<>>]

\* what main prints when verbose
Say(verbose, text) == IF verbose THEN <<text>> ELSE <<>>

\* main(verbose) is called
StartPass(p, verbose) ==
    /\ pass[p].pc = "idle"
    /\ pass' = [pass EXCEPT ![p] =
           [pc |-> "creating", verbose |-> verbose, outcome |-> "none",
            messages |-> Say(verbose, "Processing CSV data and creating interactive map..."),
            written |-> 0]]
    /\ UNCHANGED <<pc, builderVars, colorVars, pageVars, artifact, detectVars>>

\* lines 473-478: create_map_with_filter returns
CreateMap(p) ==
    /\ pass[p].pc = "creating"
    /\ LET made == create_map_with_filter(store_exists, store)
       IN  pass' = [pass EXCEPT ![p] =
               IF made.map
               THEN [@ EXCEPT !.pc = "saving", !.messages = @ \o made.printed]
               ELSE [@ EXCEPT !.pc = "idle", !.outcome = "no data",
                              !.messages = @ \o made.printed
                                  \o Say(pass[p].verbose,
                                         "Failed to create map - no data found")]]
    /\ UNCHANGED <<pc, builderVars, colorVars, pageVars, artifact, detectVars>>

\* lines 492-494: the making of the map raises after the data was read (folium,
\* or locale.setlocale at line 208)
CreateMapRaises(p) ==
    /\ pass[p].pc = "creating"
    /\ create_map_with_filter(store_exists, store).map
    /\ pass' = [pass EXCEPT ![p] =
           [@ EXCEPT !.pc = "idle", !.outcome = "error",
                     !.messages = @ \o Say(pass[p].verbose, "Error processing data")]]
    /\ UNCHANGED <<pc, builderVars, colorVars, pageVars, artifact, detectVars>>

\* line 482, save: open(outfile, "wb")
SaveOpen(p) ==
    /\ pass[p].pc = "saving"
    /\ artifact' = [exists |-> TRUE, content |-> <<>>]
    /\ pass' = [pass EXCEPT ![p] = [@ EXCEPT !.pc = "writing", !.written = 0]]
    /\ UNCHANGED <<pc, builderVars, colorVars, pageVars, detectVars>>

\* line 482, save: the next piece of the document reaches the file
SaveWrite(p) ==
    /\ pass[p].pc = "writing"
    /\ pass[p].written < MaxChunks
    /\ artifact' = [artifact EXCEPT
           !.content = WriteAt(@, pass[p].written + 1, Document(p)[pass[p].written + 1])]
    /\ pass' = [pass EXCEPT ![p] = [@ EXCEPT !.written = @ + 1]]
    /\ UNCHANGED <<pc, builderVars, colorVars, pageVars, detectVars>>

\* line 482, save raises once the file is open (the rendering, or a write);
\* lines 492-494
SaveRaises(p) ==
    /\ pass[p].pc = "writing"
    /\ pass[p].written < MaxChunks
    /\ pass' = [pass EXCEPT ![p] =
           [@ EXCEPT !.pc = "idle", !.outcome = "error",
                     !.messages = @ \o Say(pass[p].verbose, "Error processing data")]]
    /\ UNCHANGED <<pc, builderVars, colorVars, pageVars, artifact, detectVars>>

\* line 482, save: the file is closed; lines 483-486
SaveClose(p) ==
    /\ pass[p].pc = "writing"
    /\ pass[p].written = MaxChunks
    /\ pass' = [pass EXCEPT ![p] =
           [@ EXCEPT !.pc = "idle", !.outcome = "saved",
                     !.messages = @ \o Say(pass[p].verbose, "Interactive map saved")]]
    /\ UNCHANGED <<pc, builderVars, colorVars, pageVars, artifact, detectVars>>

\* the stores a pass may find: none, one without rows, one with rows, some of
\* them with a timestamp that is not an ISO date
RenderRecords ==
    {[timestamp |-> ts, hex |-> 1, lat |-> Some(48), lon |-> Some(2),
      alt |-> Some(3000)] : ts \in {<<0, 84600>>, <<>>}}

InitRender ==
    /\ \/ store_exists = FALSE /\ store = <<>>
       \/ store_exists = TRUE /\ store \in SeqsUpTo(RenderRecords, MaxRecords)
    /\ pc = "render"
    /\ BuilderIdle
    /\ ColorIdle
    /\ PageIdle
    /\ RenderIdle
    /\ DetectIdle

NextRender ==
    \E p \in Passes :
        \/ \E verbose \in BOOLEAN : StartPass(p, verbose)
        \/ CreateMap(p)
        \/ CreateMapRaises(p)
        \/ SaveOpen(p)
        \/ SaveWrite(p)
        \/ SaveRaises(p)
        \/ SaveClose(p)

SpecRender == InitRender /\ [][NextRender]_vars

----------------------------------------------------------------------------
(* Vocabulary of the claims about the builder *)

\* the positions <<k, j>> of the points built from record i
PlacesOf(trajs, i) ==
    {kj \in UNION {{<<k, j>> : j \in 1..Len(trajs[k])} : k \in 1..Len(trajs)} :
        trajs[kj[1]][kj[2]].idx = i}

InSameTrajectory(trajs, i, j) ==
    \E k \in 1..Len(trajs) :
        /\ \E a \in 1..Len(trajs[k]) : trajs[k][a].idx = i
        /\ \E b \in 1..Len(trajs[k]) : trajs[k][b].idx = j

HasPosition(rec) == rec.lat # NULL /\ rec.lon # NULL

RecordTime(i) == parse_timestamp(store[i].timestamp)

\* the records a call with selected_date works on
InScope(i) == selected_date = NULL \/ DateOf(RecordTime(i)) = Val(selected_date)

\* records i and j of one aircraft, i not later than j, with no record of that
\* aircraft strictly between them in time
ChronologicallyAdjacent(i, j) ==
    /\ i # j
    /\ InScope(i) /\ InScope(j)
    /\ store[i].hex = store[j].hex
    /\ RecordTime(i) <= RecordTime(j)
    /\ ~ \E k \in 1..Len(store) :
            /\ InScope(k)
            /\ store[k].hex = store[i].hex
            /\ RecordTime(i) < RecordTime(k)
            /\ RecordTime(k) < RecordTime(j)

\* what updateMap('all') shows, before the conversion of the points
AllDatesView == ConcatValues(trajectories_by_date, available_dates, 1)

ByDateBuilt == pc = "built" /\ all_trajectories # <<>>

TrajectorySet(trajs) == {trajs[k] : k \in 1..Len(trajs)}

\* traj is a run of consecutive points of whole
IsRunOf(traj, whole) ==
    \E from \in 1..Len(whole) :
        /\ from + Len(traj) - 1 <= Len(whole)
        /\ SubSeq(whole, from, from + Len(traj) - 1) = traj

SpansTwoDates(traj) ==
    \E a, b \in 1..Len(traj) : DateOf(traj[a].datetime) # DateOf(traj[b].datetime)

----------------------------------------------------------------------------
(* Claims about the builder *)

\* C1: create_aircraft_trajectories(csv, None) places every record whose
\* latitude and longitude are both present in exactly one trajectory and places
\* no record with a missing latitude or longitude in any trajectory.
C1_GroupingCompleteness ==
    (pc = "called" /\ selected_date = NULL) =>
        \A i \in 1..Len(store) :
            Cardinality(PlacesOf(trajectories, i)) = IF HasPosition(store[i]) THEN 1 ELSE 0

\* C2: two records of one aircraft that are adjacent in its chronological order
\* are in the same trajectory if and only if their time gap is at most 30
\* minutes.
C2_GapSplitting ==
    pc = "called" =>
        \A i, j \in 1..Len(store) :
            ChronologicallyAdjacent(i, j) =>
                (InSameTrajectory(trajectories, i, j)
                    <=> RecordTime(j) - RecordTime(i) <= GapSeconds)

\* C2 witness: an aircraft with a pair exactly 30 minutes apart, kept together,
\* and a pair 30 minutes and one second apart, split.
C2_Witness ==
    /\ pc = "called"
    /\ \E i, j \in 1..Len(store) :
          /\ ChronologicallyAdjacent(i, j)
          /\ RecordTime(j) - RecordTime(i) = GapSeconds
          /\ InSameTrajectory(trajectories, i, j)
    /\ \E i, j \in 1..Len(store) :
          /\ ChronologicallyAdjacent(i, j)
          /\ RecordTime(j) - RecordTime(i) = GapSeconds + 1
          /\ ~InSameTrajectory(trajectories, i, j)

\* C3 as stated: the union of the per-date reconstructions is the all-dates
\* reconstruction (the same trajectories).
C3_UnionEqualsAllDates ==
    ByDateBuilt => TrajectorySet(AllDatesView) = TrajectorySet(all_trajectories)

\* C3 amended: the union of the per-date reconstructions holds the records of
\* the all-dates reconstruction, each exactly once; every per-date trajectory is
\* a run of consecutive points of one all-dates trajectory; and the two hold the
\* same trajectories exactly when no all-dates trajectory has points of two
\* dates.
C3_UnionRefinesAllDates ==
    ByDateBuilt =>
        /\ \A i \in 1..Len(store) :
              /\ Cardinality(PlacesOf(AllDatesView, i)) = 1
              /\ Cardinality(PlacesOf(all_trajectories, i)) = 1
        /\ \A k \in 1..Len(AllDatesView) :
              \E m \in 1..Len(all_trajectories) :
                  IsRunOf(AllDatesView[k], all_trajectories[m])
        /\ (TrajectorySet(AllDatesView) = TrajectorySet(all_trajectories))
              <=> ~ \E m \in 1..Len(all_trajectories) : SpansTwoDates(all_trajectories[m])

\* C3 witness: an all-dates trajectory that crosses midnight, cut in two in the
\* union of the per-date reconstructions.
C3_Witness ==
    /\ ByDateBuilt
    /\ \E m \in 1..Len(all_trajectories) : SpansTwoDates(all_trajectories[m])
    /\ Len(AllDatesView) > Len(all_trajectories)

\* C4: in every trajectory the timestamps of consecutive points do not decrease,
\* all points are of one aircraft, and there is at least one point.
C4_TrajectoryOrdered ==
    pc = "called" =>
        \A k \in 1..Len(trajectories) :
            /\ Len(trajectories[k]) >= 1
            /\ \A a \in 1..(Len(trajectories[k]) - 1) :
                  trajectories[k][a].datetime <= trajectories[k][a + 1].datetime
            /\ \A a, b \in 1..Len(trajectories[k]) :
                  store[trajectories[k][a].idx].hex = store[trajectories[k][b].idx].hex

\* C4 witness: a store whose rows are not in chronological order, rebuilt into a
\* trajectory of several points.
C4_Witness ==
    /\ pc = "called"
    /\ \E i, j \in 1..Len(store) :
          /\ i < j
          /\ store[i].hex = store[j].hex
          /\ RecordTime(i) > RecordTime(j)
          /\ InSameTrajectory(trajectories, i, j)

----------------------------------------------------------------------------
(* Claims about the colour mapper *)

HexValue(ch) ==
    CASE ch = "0" -> 0 [] ch = "1" -> 1 [] ch = "2" -> 2 [] ch = "3" -> 3
      [] ch = "4" -> 4 [] ch = "5" -> 5 [] ch = "6" -> 6 [] ch = "7" -> 7
      [] ch = "8" -> 8 [] ch = "9" -> 9
      [] ch \in {"a", "A"} -> 10 [] ch \in {"b", "B"} -> 11
      [] ch \in {"c", "C"} -> 12 [] ch \in {"d", "D"} -> 13
      [] ch \in {"e", "E"} -> 14 [] ch \in {"f", "F"} -> 15

\* channel k (1 red, 2 green, 3 blue) of the colour string "#rrggbb"
Channel(color, k) == 16 * HexValue(color[2 * k]) + HexValue(color[2 * k + 1])

IsColorString(color) ==
    /\ Len(color) = 7
    /\ color[1] = "#"
    /\ \A k \in 2..7 : color[k] \in {HexDigit(v) : v \in 0..15} \cup {"A", "B", "C", "D", "E", "F"}

C7_BoundsAndMidpoint ==
    (py_color # <<>> /\ altitude # NULL) =>
        /\ (Val(altitude) = 0 \/ Val(altitude) <= 2 * min_alt) => py_color = Green
        /\ Val(altitude) >= 2 * max_alt => py_color = Red
        /\ Val(altitude) = max_alt => Channel(py_color, 1) = Channel(py_color, 2)
        /\ Channel(py_color, 3) = 0

\* C7 amended: with min_alt < max_alt, get_altitude_color is pure green for
\* every altitude <= min_alt (for altitude 0 when min_alt >= 0), pure red for
\* every altitude >= max_alt, has equal red and green channels at altitude
\* (min_alt + max_alt) / 2 (which is max_alt / 2 when min_alt = 0, the default),
\* and has a blue channel of 0 for every altitude given.
C7_BoundsAndMidpointOfRange ==
    (py_color # <<>> /\ altitude # NULL /\ min_alt < max_alt) =>
        /\ Val(altitude) <= 2 * min_alt => py_color = Green
        /\ (Val(altitude) = 0 /\ min_alt >= 0) => py_color = Green
        /\ Val(altitude) >= 2 * max_alt => py_color = Red
        /\ Val(altitude) = min_alt + max_alt =>
              /\ Channel(py_color, 1) = Channel(py_color, 2)
              /\ Channel(py_color, 1) = 127
        /\ (min_alt = 0 /\ Val(altitude) = max_alt) =>
              Channel(py_color, 1) = Channel(py_color, 2)
        /\ Channel(py_color, 3) = 0

\* C7 witness: bounds with a floor other than 0, coloured at the middle of the
\* range.
C7_Witness ==
    /\ py_color # <<>>
    /\ altitude # NULL
    /\ min_alt # 0
    /\ Val(altitude) = min_alt + max_alt
    /\ Channel(py_color, 1) = Channel(py_color, 2)

\* C8: for altitudes a1 < a2 within [0, ceiling], the red channel of the colour
\* of a1 is at most that of a2 and its green channel at least that of a2, also
\* where the result passes from the gradient to pure green or pure red.
C8_ChannelsMonotone ==
    (py_color # <<>> /\ altitude # NULL /\ altitude2 # NULL
        /\ 0 <= Val(altitude) /\ Val(altitude) < Val(altitude2)
        /\ Val(altitude2) <= 2 * Ceiling) =>
            /\ Channel(py_color, 1) <= Channel(py_color2, 1)
            /\ Channel(py_color, 2) >= Channel(py_color2, 2)

\* C8 witness: the last altitude of the gradient compared with the ceiling,
\* where the result passes to pure red.
C8_Witness ==
    /\ py_color # <<>>
    /\ altitude = Some(2 * Ceiling - 1)
    /\ altitude2 = Some(2 * Ceiling)
    /\ py_color2 = Red
    /\ py_color \notin {Green, Red}

----------------------------------------------------------------------------
(* Claim about the path of an altitude to the page *)

AltitudeColored(layer) == layer.kind \in {"circleMarker", "polyline"}

LayersShown == {currentLayers[k] : k \in 1..Len(currentLayers)}

\* C5: a record without altitude is drawn gray, and no record with an altitude
\* is: a layer coloured by altitude is gray when its records have no altitude
\* and is not gray when they all have one.
C5_MissingAltitudeGray ==
    pc = "shown" =>
        \A layer \in {l \in LayersShown : AltitudeColored(l)} :
            /\ (\A k \in 1..Len(layer.at) : store[layer.at[k]].alt = NULL)
                  => layer.color = Gray
            /\ (\A k \in 1..Len(layer.at) : store[layer.at[k]].alt # NULL)
                  => layer.color # Gray

----------------------------------------------------------------------------
(* Claims about the render pass *)

Finished(p) == pass[p].pc = "idle" /\ pass[p].outcome # "none"

\* C9: when the store file is absent, a render pass reports 'source not found',
\* which is not the 'no data' report of a store without rows, and writes no
\* artifact.
C9_SourceNotFoundReported ==
    \A p \in Passes :
        (Finished(p) /\ ~store_exists) =>
            /\ pass[p].outcome = "source not found"
            /\ ~artifact.exists

IsComplete(content) == \E p \in Passes : content = Document(p)

\* C10: at every moment the artifact file is absent or is the complete document
\* of one render.
C10_ArtifactAbsentOrComplete ==
    artifact.exists => IsComplete(artifact.content)

\* a diagnostic of the pass p: anything it printed
Diagnosed(p) == pass[p].messages # <<>>

\* C11: every render pass that fails, verbose or not, for whatever reason
\* (missing store, malformed record, no data, rendering or write error), ends
\* by returning to its caller and has printed a diagnostic message.
C11_FailureDiagnosed ==
    \A p \in Passes :
        (Finished(p) /\ pass[p].outcome # "saved") => Diagnosed(p)

Contains(messages, text) == \E i \in 1..Len(messages) : messages[i] = text

\* C12: when a record of the store has an unparseable timestamp, no pass
\* reaches the saving of a map and no artifact exists, and every pass that has
\* run ended in failure with the diagnostic of the read error: no artifact is
\* built from the other records.
C12_MalformedFailsWholePass ==
    Malformed(store) =>
        /\ ~artifact.exists
        /\ \A p \in Passes :
               /\ pass[p].pc \notin {"saving", "writing"}
               /\ Finished(p) =>
                      /\ pass[p].outcome = "no data"
                      /\ Contains(pass[p].messages,
                             "Error reading dates from CSV: Invalid isoformat string")

\* a silent pass over a store with one malformed and two well-formed records
\* has finished
C12_Witness ==
    /\ Len(store) = 3
    /\ ~IsoFormat(store[2].timestamp)
    /\ IsoFormat(store[1].timestamp) /\ IsoFormat(store[3].timestamp)
    /\ \E p \in Passes : Finished(p) /\ ~pass[p].verbose

\* the layers and the count of a page that shows the selection sel
LayersOf(sel) ==
    AddAll(TrajectoriesToShow(trajectories_json(trajectories_by_date),
                              available_dates, sel), 1)

CountOf(sel) ==
    Len(TrajectoriesToShow(trajectories_json(trajectories_by_date),
                           available_dates, sel))

NoDuplicate(layers) ==
    \A i, j \in 1..Len(layers) : layers[i] = layers[j] => i = j

\* C13: whatever the order of the two initialisation callbacks and of the
\* user's selections, the map holds exactly the layers of the trajectories of
\* the selection that the last updateMap call applied, each once, and 'count'
\* is the number of those trajectories; before any call it holds none.
C13_LayersOfLastApplied ==
    /\ NoDuplicate(mapLayers)
    /\ applied = <<>> => mapLayers = <<>> /\ count = 0
    /\ applied # <<>> =>
           /\ mapLayers = LayersOf(applied[1])
           /\ count = CountOf(applied[1])

\* both callbacks have run, two listeners are registered, and the user has
\* gone from a date with trajectories to another selection that shows fewer
\* layers than all dates together
C13_Witness ==
    /\ fired = {"DOMContentLoaded", "setTimeout"}
    /\ listeners = 2
    /\ Len(available_dates) = 2
    /\ applied # <<>> /\ applied[1] = select_value
    /\ select_value = Some(available_dates[2])
    /\ mapLayers # <<>>
    /\ Len(mapLayers) < Len(LayersOf(AllDates))

\* C15: once the page has initialised, the layers on the map are those of the
\* value the date control shows, also before the user has touched the control.
C15_DisplayMatchesControl ==
    fired # {} =>
        {mapLayers[i] : i \in 1..Len(mapLayers)} =
            {LayersOf(select_value)[i] : i \in 1..Len(LayersOf(select_value))}

\* the aircraft the filters of the configuration let through
Matching(ac) ==
    /\ ac.alt_baro # NULL
    /\ MIN_ALT <= Val(ac.alt_baro) /\ Val(ac.alt_baro) <= MAX_ALT
    /\ ~(ac.flight # NULL
         /\ \E prefix \in CALLSIGN_BLACKLIST : startswith(Val(ac.flight), prefix))
    /\ ~(ac.r # NULL /\ Val(ac.r) \in REGIS_BLACKLIST)
    /\ ~(/\ get_type_description(ac.t, type_data) # NULL
         /\ Val(get_type_description(ac.t, type_data)) \in DESC_BLACKLIST)

RowsOf(acs) == [i \in 1..Len(acs) |-> Row(acs[i])]

\* C14: a detection cycle appends to the log the rows of exactly the aircraft
\* of the answer that match the filters, once each and in the order of the
\* answer, whatever the other aircraft of the answer are: an aircraft without
\* altitude or position does not keep a later matching aircraft out.
C14_MatchingAppendedInOrder ==
    pc = "checked" => store = RowsOf(SelectSeq(data, Matching))

====
